---- MODULE Spec2Model ----
(***************************************************************************)
(* Truth-table generator (src/src/main.rs): the lexer `tokenize`, the      *)
(* recursive-descent evaluator `Parser`, `extract_variables`, and the      *)
(* enumeration loop of `main`.                                             *)
(*                                                                         *)
(* Characters are their ASCII codes, a text is a sequence of codes, a      *)
(* token is a record [kind, c] (c is the letter of a Var, 0 otherwise) and *)
(* an assignment (HashMap<char, bool>) is a function from codes to         *)
(* BOOLEAN whose DOMAIN is its key set.                                    *)
(***************************************************************************)
EXTENDS Integers, Sequences, FiniteSets, TLC

VARIABLES pc, expr, tokens, variables, total, i, var_map, outcome, rows

vars == <<pc, expr, tokens, variables, total, i, var_map, outcome, rows>>

----------------------------------------------------------------------------
(* Characters *)

TAB == 9
NL == 10
SP == 32
BANG == 33
AMP == 38
LP == 40
RP == 41
MINUS == 45
LT == 60
GT == 62
cA == 65
cB == 66
cC == 67
cD == 68
cE == 69
cF == 70
cZ == 90
CARET == 94
ca == 97
PIPE == 124

\* char::is_ascii_alphabetic
is_ascii_alphabetic(c) == (c >= 65 /\ c <= 90) \/ (c >= 97 /\ c <= 122)

\* char::is_whitespace on the ASCII range, the set str::trim strips
is_whitespace(c) == (c >= 9 /\ c <= 13) \/ c = 32

----------------------------------------------------------------------------
(* Tokens *)

Tok(kind) == [kind |-> kind, c |-> 0]

Var(c) == [kind |-> "Var", c |-> c]

\* a call that panicked leaves no Vec<Token> behind
NoTokens == << >>

----------------------------------------------------------------------------
(* tokenize: the scan from character position p (1-based) with the tokens  *)
(* pushed so far.  A panic aborts the call: the result carries no tokens,  *)
(* only the message and the position of the character `ch` being matched.  *)

LexOk(toks) == [ok |-> TRUE, tokens |-> toks, err |-> "", at |-> 0]

LexPanic(msg, p) == [ok |-> FALSE, tokens |-> NoTokens, err |-> msg, at |-> p]

\* a lookahead that only asks whether a character follows
PeekIs_any(text, p, c) == p <= Len(text)

\* chars.peek() == Some(&c) at position p
PeekIs(text, p, c) == p <= Len(text) /\ text[p] = c

RECURSIVE tokenize_from(_, _, _)
tokenize_from(text, p, toks) ==
  IF p > Len(text) THEN LexOk(toks)
  ELSE LET ch == text[p] IN
    CASE ch = SP    -> tokenize_from(text, p + 1, toks)
      [] ch = BANG  -> tokenize_from(text, p + 1, Append(toks, Tok("Not")))
      [] ch = AMP   -> tokenize_from(text, p + 1, Append(toks, Tok("And")))
      [] ch = PIPE  -> tokenize_from(text, p + 1, Append(toks, Tok("Or")))
      [] ch = CARET -> tokenize_from(text, p + 1, Append(toks, Tok("Xor")))
      [] ch = LP    -> tokenize_from(text, p + 1, Append(toks, Tok("LParen")))
      [] ch = RP    -> tokenize_from(text, p + 1, Append(toks, Tok("RParen")))
      [] ch = MINUS ->
           IF PeekIs(text, p + 1, GT)
           THEN tokenize_from(text, p + 2, Append(toks, Tok("Implies")))
           ELSE LexPanic("Invalid token: expected ->", p)
      [] ch = LT ->
           IF PeekIs(text, p + 1, MINUS) /\ PeekIs(text, p + 2, GT)
           THEN tokenize_from(text, p + 3, Append(toks, Tok("Iff")))
           ELSE LexPanic("Invalid token: expected <->", p)
      [] OTHER ->
           IF is_ascii_alphabetic(ch)
           THEN tokenize_from(text, p + 1, Append(toks, Var(ch)))
           ELSE LexPanic("Unexpected character", p)

\* a lexer whose first arm skips every whitespace character, not only ' '
RECURSIVE tokenize_from_skip_ws(_, _, _)
tokenize_from_skip_ws(text, p, toks) ==
  IF p > Len(text) THEN LexOk(toks)
  ELSE LET ch == text[p] IN
    CASE is_whitespace(ch) -> tokenize_from_skip_ws(text, p + 1, toks)
      [] ch = BANG  -> tokenize_from_skip_ws(text, p + 1, Append(toks, Tok("Not")))
      [] ch = AMP   -> tokenize_from_skip_ws(text, p + 1, Append(toks, Tok("And")))
      [] ch = PIPE  -> tokenize_from_skip_ws(text, p + 1, Append(toks, Tok("Or")))
      [] ch = CARET -> tokenize_from_skip_ws(text, p + 1, Append(toks, Tok("Xor")))
      [] ch = LP    -> tokenize_from_skip_ws(text, p + 1, Append(toks, Tok("LParen")))
      [] ch = RP    -> tokenize_from_skip_ws(text, p + 1, Append(toks, Tok("RParen")))
      [] ch = MINUS ->
           IF PeekIs(text, p + 1, GT)
           THEN tokenize_from_skip_ws(text, p + 2, Append(toks, Tok("Implies")))
           ELSE LexPanic("Invalid token: expected ->", p)
      [] ch = LT ->
           IF PeekIs(text, p + 1, MINUS) /\ PeekIs(text, p + 2, GT)
           THEN tokenize_from_skip_ws(text, p + 3, Append(toks, Tok("Iff")))
           ELSE LexPanic("Invalid token: expected <->", p)
      [] OTHER ->
           IF is_ascii_alphabetic(ch)
           THEN tokenize_from_skip_ws(text, p + 1, Append(toks, Var(ch)))
           ELSE LexPanic("Unexpected character", p)

tokenize_skip_ws(text) == tokenize_from_skip_ws(text, 1, << >>)

tokenize(text) == tokenize_from(text, 1, << >>)

----------------------------------------------------------------------------
(* Parser.  The Peekable cursor is `pos`, the number of tokens consumed;   *)
(* a parse function returns [val, pos, err, found]: err = "" when it       *)
(* returned `val`, otherwise the panic message (and, for "Unexpected       *)
(* token", the kind of the token found) and val is meaningless.            *)

Ret(val, pos) == [val |-> val, pos |-> pos, err |-> "", found |-> ""]

Panic(msg, found, pos) == [val |-> FALSE, pos |-> pos, err |-> msg, found |-> found]

\* self.tokens.peek(): the kind of the next token, "None" at the end
PeekKind(toks, pos) == IF pos < Len(toks) THEN toks[pos + 1].kind ELSE "None"

\* an unbound variable read as true
lookup_default_true(vmap, c) == IF c \in DOMAIN vmap THEN vmap[c] ELSE TRUE

\* *self.vars.get(c).unwrap_or(&false)
lookup(vmap, c) == IF c \in DOMAIN vmap THEN vmap[c] ELSE FALSE

\* the combining rule of each level
iff_fold(result, rhs) == result = rhs

implies_fold(result, rhs) == ~result \/ rhs

or_fold(result, rhs) == result \/ rhs

xor_fold(result, rhs) == result # rhs

and_fold(result, rhs) == result /\ rhs

\* the value of a call, bound once as `let r = call` binds it:
\* The({body : r \in {call}}) is body with r the value of call
The(S) == CHOOSE out \in S : TRUE

RECURSIVE parse_expr(_, _, _)
RECURSIVE parse_not(_, _, _)
RECURSIVE and_loop(_, _, _)
RECURSIVE xor_loop(_, _, _)
RECURSIVE or_loop(_, _, _)
RECURSIVE implies_loop(_, _, _)
RECURSIVE iff_loop(_, _, _)

\* a closing parenthesis that is consumed when present and not required
close_paren_lenient(toks, e) ==
  IF e.err # "" THEN e
  ELSE IF PeekKind(toks, e.pos) = "RParen" THEN Ret(e.val, e.pos + 1)
  ELSE e

\* the rest of the LParen arm, e being what parse_expr returned
close_paren(toks, e) ==
  IF e.err # "" THEN e
  ELSE IF PeekKind(toks, e.pos) = "RParen" THEN Ret(e.val, e.pos + 1)
  ELSE Panic("Expected ')'", "", IF e.pos < Len(toks) THEN e.pos + 1 ELSE e.pos)

parse_atom(toks, vmap, pos) ==
  IF pos >= Len(toks) THEN Panic("Unexpected end of input", "", pos)
  ELSE LET tok == toks[pos + 1] IN
    CASE tok.kind = "Var" -> Ret(lookup(vmap, tok.c), pos + 1)
      [] tok.kind = "LParen" ->
           The({close_paren(toks, e) :
                e \in {parse_expr(toks, vmap, pos + 1)}})
      [] OTHER -> Panic("Unexpected token", tok.kind, pos + 1)

parse_not(toks, vmap, pos) ==
  IF PeekKind(toks, pos) = "Not"
  THEN The({IF r.err # "" THEN r ELSE Ret(~r.val, r.pos) :
            r \in {parse_not(toks, vmap, pos + 1)}})
  ELSE parse_atom(toks, vmap, pos)

\* `result = result && self.parse_not()`: the right operand is parsed only
\* when the left one is true
and_loop_short_circuit(toks, vmap, st) ==
  IF st.err # "" THEN st
  ELSE IF PeekKind(toks, st.pos) = "And"
  THEN IF ~st.val THEN and_loop(toks, vmap, Ret(FALSE, st.pos + 1))
       ELSE The({IF rhs.err # "" THEN rhs
                 ELSE and_loop(toks, vmap, Ret(rhs.val, rhs.pos)) :
                 rhs \in {parse_not(toks, vmap, st.pos + 1)}})
  ELSE st

\* the while-let loop of parse_and, entered with `result` in st
and_loop(toks, vmap, st) ==
  IF st.err # "" THEN st
  ELSE IF PeekKind(toks, st.pos) = "And"
  THEN The({IF rhs.err # "" THEN rhs
            ELSE and_loop(toks, vmap, Ret(and_fold(st.val, rhs.val), rhs.pos)) :
            rhs \in {parse_not(toks, vmap, st.pos + 1)}})
  ELSE st

parse_and(toks, vmap, pos) ==
  The({and_loop(toks, vmap, st) :
       st \in {parse_not(toks, vmap, pos)}})

xor_loop(toks, vmap, st) ==
  IF st.err # "" THEN st
  ELSE IF PeekKind(toks, st.pos) = "Xor"
  THEN The({IF rhs.err # "" THEN rhs
            ELSE xor_loop(toks, vmap, Ret(xor_fold(st.val, rhs.val), rhs.pos)) :
            rhs \in {parse_and(toks, vmap, st.pos + 1)}})
  ELSE st

\* an xor level whose first operand is parsed one level too deep
parse_xor_wrong_level(toks, vmap, pos) ==
  The({xor_loop(toks, vmap, st) :
       st \in {parse_not(toks, vmap, pos)}})

parse_xor(toks, vmap, pos) ==
  The({xor_loop(toks, vmap, st) :
       st \in {parse_and(toks, vmap, pos)}})

or_loop(toks, vmap, st) ==
  IF st.err # "" THEN st
  ELSE IF PeekKind(toks, st.pos) = "Or"
  THEN The({IF rhs.err # "" THEN rhs
            ELSE or_loop(toks, vmap, Ret(or_fold(st.val, rhs.val), rhs.pos)) :
            rhs \in {parse_xor(toks, vmap, st.pos + 1)}})
  ELSE st

parse_or(toks, vmap, pos) ==
  The({or_loop(toks, vmap, st) :
       st \in {parse_xor(toks, vmap, pos)}})

\* an implication chain folded from the right: a -> (b -> c)
implies_loop_right(toks, vmap, st) ==
  IF st.err # "" THEN st
  ELSE IF PeekKind(toks, st.pos) = "Implies"
  THEN The({The({IF rest.err # "" THEN rest
                 ELSE Ret(implies_fold(st.val, rest.val), rest.pos) :
                 rest \in {implies_loop(toks, vmap, rhs)}}) :
            rhs \in {parse_or(toks, vmap, st.pos + 1)}})
  ELSE st

implies_loop(toks, vmap, st) ==
  IF st.err # "" THEN st
  ELSE IF PeekKind(toks, st.pos) = "Implies"
  THEN The({IF rhs.err # "" THEN rhs
            ELSE implies_loop(toks, vmap,
                              Ret(implies_fold(st.val, rhs.val), rhs.pos)) :
            rhs \in {parse_or(toks, vmap, st.pos + 1)}})
  ELSE st

parse_implies(toks, vmap, pos) ==
  The({implies_loop(toks, vmap, st) :
       st \in {parse_or(toks, vmap, pos)}})

iff_loop(toks, vmap, st) ==
  IF st.err # "" THEN st
  ELSE IF PeekKind(toks, st.pos) = "Iff"
  THEN The({IF rhs.err # "" THEN rhs
            ELSE iff_loop(toks, vmap, Ret(iff_fold(st.val, rhs.val), rhs.pos)) :
            rhs \in {parse_implies(toks, vmap, st.pos + 1)}})
  ELSE st

parse_iff(toks, vmap, pos) ==
  The({iff_loop(toks, vmap, st) :
       st \in {parse_implies(toks, vmap, pos)}})

parse_expr(toks, vmap, pos) == parse_iff(toks, vmap, pos)

\* Parser::new(tokens, vars).parse_expr()
evaluate(toks, vmap) == parse_expr(toks, vmap, 0)

----------------------------------------------------------------------------
(* extract_variables and the glue of main *)

\* vars_vec.sort() over the collected HashSet: the ascending list of S
RECURSIVE sort(_)
sort(S) ==
  IF S = {} THEN << >>
  ELSE LET m == CHOOSE x \in S : \A y \in S : x <= y IN <<m>> \o sort(S \ {m})

\* the letters in order of appearance, neither sorted nor de-duplicated
extract_variables_unsorted(text) == SelectSeq(text, is_ascii_alphabetic)

extract_variables(text) ==
  sort({text[k] : k \in {n \in 1..Len(text) : is_ascii_alphabetic(text[n])}})

\* str::trim: drop leading and trailing whitespace
RECURSIVE trim_start(_)
trim_start(text) ==
  IF text # << >> /\ is_whitespace(Head(text)) THEN trim_start(Tail(text)) ELSE text

RECURSIVE trim_end(_)
trim_end(text) ==
  IF text # << >> /\ is_whitespace(text[Len(text)])
  THEN trim_end(SubSeq(text, 1, Len(text) - 1))
  ELSE text

trim(text) == trim_end(trim_start(text))

\* the limit of `variables.len() > 5`
MaxVariables == 5

\* the first variable bound to the least significant bit
bit_val_lsb_first(iv, n, j) == ((iv \div (2 ^ j)) % 2) = 1

\* (i >> (variables.len() - j - 1)) & 1 == 1, j the 0-based index
bit_val(iv, n, j) == ((iv \div (2 ^ (n - j - 1))) % 2) = 1

\* the HashMap built by the inner loop: a later insert of a key wins
build_var_map(vs, iv) ==
  [c \in {vs[k] : k \in 1..Len(vs)} |->
     LET k == CHOOSE k \in 1..Len(vs) :
                  vs[k] = c /\ \A m \in 1..Len(vs) : vs[m] = c => m <= k
     IN bit_val(iv, Len(vs), k - 1)]

\* the digits printed in front of the bar
row_bits(vs, iv) == [k \in 1..Len(vs) |-> IF bit_val(iv, Len(vs), k - 1) THEN 1 ELSE 0]

EmptyMap == [c \in {} |-> FALSE]

NoOutcome == [val |-> FALSE, pos |-> 0, err |-> "", found |-> ""]

----------------------------------------------------------------------------
(* Inputs *)

MaxLen == 4

MaxTokens == 4

Chars == {SP, TAB, BANG, AMP, PIPE, CARET, LP, RP, MINUS, GT, LT, cA, cB}

Texts == UNION {[1..k -> Chars] : k \in 0..MaxLen}

\* longer lines: the scenarios of the documentation, the test expression
\* commented out in main, mixed case, five and six variables

\* (A & B) -> (C | D)
Scenario3Text ==
  <<LP, cA, SP, AMP, SP, cB, RP, SP, MINUS, GT, SP, LP, cC, SP, PIPE, SP, cD, RP>>

\* ((A & B) -> (!C | D)) <-> (!A | (C & (D -> B)))
TestExpressionText ==
  <<LP, LP, cA, SP, AMP, SP, cB, RP, SP, MINUS, GT, SP, LP, BANG, cC, SP, PIPE, SP, cD, RP, RP,
    SP, LT, MINUS, GT, SP,
    LP, BANG, cA, SP, PIPE, SP, LP, cC, SP, AMP, SP, LP, cD, SP, MINUS, GT, SP, cB, RP, RP, RP>>

\* A -> > B
StrayGtText == <<cA, SP, MINUS, GT, SP, GT, SP, cB>>

\* A - B
LoneMinusText == <<cA, SP, MINUS, SP, cB>>

\* A | B & C
PrecedenceText == <<cA, SP, PIPE, SP, cB, SP, AMP, SP, cC>>

\* A -> B -> C
ImpliesChainText == <<cA, SP, MINUS, GT, SP, cB, SP, MINUS, GT, SP, cC>>

\* a&Z|A^a
MixedCaseText == <<ca, AMP, cZ, PIPE, cA, CARET, ca>>

\* E&D&C&B&A
FiveVariablesText == <<cE, AMP, cD, AMP, cC, AMP, cB, AMP, cA>>

\* A&B&C&D&(E
UnbalancedText == <<cA, AMP, cB, AMP, cC, AMP, cD, AMP, LP, cE>>

\* A&B&C&D&E&F
SixVariablesText == <<cA, AMP, cB, AMP, cC, AMP, cD, AMP, cE, AMP, cF>>

\* a line with blanks and tabs around `A B`
PaddedText == <<SP, TAB, cA, SP, cB, TAB, SP>>

SampleTexts ==
  { Scenario3Text, TestExpressionText, StrayGtText, LoneMinusText, PrecedenceText,
    ImpliesChainText, MixedCaseText, FiveVariablesText, UnbalancedText,
    SixVariablesText, PaddedText }

EvalLetters == {cA, cZ}

TokenSet ==
  {Tok(k) : k \in {"Not", "And", "Or", "Xor", "Implies", "Iff", "LParen", "RParen"}}
    \cup {Var(c) : c \in EvalLetters}

TokenSeqs == UNION {[1..k -> TokenSet] : k \in 0..MaxTokens}

\* every HashMap<char, bool> whose keys are among L
Assignments(L) == UNION {[D -> BOOLEAN] : D \in SUBSET L}

BinOps == {"Iff", "Implies", "Or", "Xor", "And"}

\* the tokens of `A op1 B op2 C`
Chain(op1, op2) == <<Var(cA), Tok(op1), Var(cB), Tok(op2), Var(cC)>>

----------------------------------------------------------------------------
(* main *)

Init ==
  /\ pc = "read"
  /\ expr = << >>
  /\ tokens = << >>
  /\ variables = << >>
  /\ total = 0
  /\ i = 0
  /\ var_map = EmptyMap
  /\ outcome = NoOutcome
  /\ rows = << >>

\* read_line (the line keeps its newline) and trim
ReadLine ==
  /\ pc = "read"
  /\ \E text \in Texts \cup SampleTexts : expr' = trim(text \o <<NL>>)
  /\ pc' = "tokenize"
  /\ UNCHANGED <<tokens, variables, total, i, var_map, outcome, rows>>

\* let tokens = tokenize(&expr): a panic ends the process
Tokenize ==
  /\ pc = "tokenize"
  /\ LET r == tokenize(expr) IN
       IF r.ok
       THEN /\ tokens' = r.tokens
            /\ outcome' = outcome
            /\ pc' = "extract"
       ELSE /\ tokens' = r.tokens
            /\ outcome' = [val |-> FALSE, pos |-> r.at, err |-> r.err, found |-> ""]
            /\ pc' = "lex_panic"
  /\ UNCHANGED <<expr, variables, total, i, var_map, rows>>

ExtractVariables ==
  /\ pc = "extract"
  /\ variables' = extract_variables(expr)
  /\ pc' = "check"
  /\ UNCHANGED <<expr, tokens, total, i, var_map, outcome, rows>>

\* the limit on the number of variables, then the header and `total`
CheckVariables ==
  /\ pc = "check"
  /\ IF Len(variables) > MaxVariables
     THEN /\ pc' = "rejected"
          /\ total' = total
     ELSE /\ pc' = "loop"
          /\ total' = 2 ^ Len(variables)
  /\ UNCHANGED <<expr, tokens, variables, i, var_map, outcome, rows>>

\* one iteration of `for i in 0..total`: a panic of the parser ends the
\* process before the result of the row is printed
EvaluateRow ==
  /\ pc = "loop"
  /\ i < total
  /\ LET m == build_var_map(variables, i)
         r == evaluate(tokens, m)
     IN /\ var_map' = m
        /\ outcome' = r
        /\ IF r.err # ""
           THEN /\ pc' = "parse_panic"
                /\ UNCHANGED <<i, rows>>
           ELSE /\ rows' = Append(rows, [i |-> i, bits |-> row_bits(variables, i),
                                        var_map |-> m, result |-> r.val])
                /\ i' = i + 1
                /\ pc' = pc
  /\ UNCHANGED <<expr, tokens, variables, total>>

Finish ==
  /\ pc = "loop"
  /\ i >= total
  /\ pc' = "done"
  /\ UNCHANGED <<expr, tokens, variables, total, i, var_map, outcome, rows>>

Next == ReadLine \/ Tokenize \/ ExtractVariables \/ CheckVariables \/ EvaluateRow \/ Finish

Spec == Init /\ [][Next]_vars

----------------------------------------------------------------------------
(* tokenize and extract_variables on every text, untrimmed *)

InitLex ==
  /\ pc = "tokenize"
  /\ expr \in Texts \cup SampleTexts
  /\ tokens = << >>
  /\ variables = << >>
  /\ total = 0
  /\ i = 0
  /\ var_map = EmptyMap
  /\ outcome = NoOutcome
  /\ rows = << >>

NextLex == Tokenize \/ ExtractVariables

SpecLex == InitLex /\ [][NextLex]_vars

----------------------------------------------------------------------------
(* Parser::new(tokens, vars).parse_expr() on every token sequence and      *)
(* every assignment, total or partial                                      *)

InitEval ==
  /\ pc = "evaluate"
  /\ expr = << >>
  /\ tokens \in TokenSeqs
  /\ variables = << >>
  /\ total = 0
  /\ i = 0
  /\ var_map \in Assignments(EvalLetters)
  /\ outcome = NoOutcome
  /\ rows = << >>

Evaluate ==
  /\ pc = "evaluate"
  /\ outcome' = evaluate(tokens, var_map)
  /\ pc' = "evaluated"
  /\ UNCHANGED <<expr, tokens, variables, total, i, var_map, rows>>

NextEval == Evaluate

SpecEval == InitEval /\ [][NextEval]_vars

\* the three-operand chains `A op1 B op2 C` under every assignment of A, B, C
InitChain ==
  /\ pc = "evaluate"
  /\ expr = << >>
  /\ \E op1 \in BinOps, op2 \in BinOps : tokens = Chain(op1, op2)
  /\ variables = << >>
  /\ total = 0
  /\ i = 0
  /\ var_map \in [{cA, cB, cC} -> BOOLEAN]
  /\ outcome = NoOutcome
  /\ rows = << >>

SpecChain == InitChain /\ [][NextEval]_vars

----------------------------------------------------------------------------
(* Properties of the lexer, under SpecLex *)

\* Tokenize has acted on expr
Lexed == pc \in {"extract", "check", "lex_panic"}

LexSucceeded == pc \in {"extract", "check"}

PlainChars == {SP, BANG, AMP, PIPE, CARET, LP, RP}

\* the character at position k cannot belong to any token or blank: a `-`
\* with no `>` right after it, a `<` with no `->` right after it, a `>`
\* that does not close an arrow, or a character outside the alphabet
Offending(text, k) ==
  LET ch == text[k] IN
    CASE ch = MINUS -> ~(k + 1 <= Len(text) /\ text[k + 1] = GT)
      [] ch = LT    -> ~(k + 2 <= Len(text) /\ text[k + 1] = MINUS /\ text[k + 2] = GT)
      [] ch = GT    -> ~(k > 1 /\ text[k - 1] = MINUS)
      [] OTHER      -> ~(ch \in PlainChars \/ (ch >= 65 /\ ch <= 90) \/ (ch >= 97 /\ ch <= 122))

Offenders(text) == {k \in 1..Len(text) : Offending(text, k)}

FirstOffender(text) == CHOOSE k \in Offenders(text) : \A m \in Offenders(text) : k <= m

\* C3: tokenize fails exactly when the text holds a `-` not followed by `>`,
\* a `<` not followed by `->`, or a character that is no blank, operator,
\* parenthesis or ASCII letter (a tab, a stray `>`); it stops at the first
\* of them and leaves no tokens.
C3_LexFailsExactlyOnBadChar ==
  Lexed =>
    IF Offenders(expr) = {}
    THEN LexSucceeded
    ELSE /\ pc = "lex_panic"
         /\ tokens = << >>
         /\ outcome.err # ""
         /\ outcome.pos = FirstOffender(expr)

\* `A -> > B` stops at the stray `>`, the sixth character
C3_Witness ==
  /\ pc = "lex_panic"
  /\ expr = StrayGtText
  /\ outcome.pos = 6
  /\ tokens = << >>

\* how a token is written
Spelling(tok) ==
  CASE tok.kind = "Not"     -> <<BANG>>
    [] tok.kind = "And"     -> <<AMP>>
    [] tok.kind = "Or"      -> <<PIPE>>
    [] tok.kind = "Xor"     -> <<CARET>>
    [] tok.kind = "Implies" -> <<MINUS, GT>>
    [] tok.kind = "Iff"     -> <<LT, MINUS, GT>>
    [] tok.kind = "LParen"  -> <<LP>>
    [] tok.kind = "RParen"  -> <<RP>>
    [] tok.kind = "Var"     -> <<tok.c>>

RECURSIVE SpellAll(_)
SpellAll(toks) == IF toks = << >> THEN << >> ELSE Spelling(Head(toks)) \o SpellAll(Tail(toks))

NotSpace(c) == c # SP

\* C4: when tokenize succeeds, the spellings of the tokens, concatenated in
\* order, are the text without its space characters.
C4_NoCharacterDropped ==
  LexSucceeded => SpellAll(tokens) = SelectSeq(expr, NotSpace)

\* `(A & B) -> (C | D)`: blanks dropped, a two-character operator kept
C4_Witness ==
  /\ pc = "extract"
  /\ expr = Scenario3Text
  /\ Len(tokens) = 11
  /\ tokens[6] = Tok("Implies")

----------------------------------------------------------------------------
(* Properties of the parser, under SpecChain and SpecEval *)

Evaluated == pc = "evaluated"

\* binding strength, loosest first: Iff < Implies < Or < Xor < And
Prec(op) ==
  CASE op = "Iff" -> 1 [] op = "Implies" -> 2 [] op = "Or" -> 3 [] op = "Xor" -> 4
    [] op = "And" -> 5

\* the truth function of a binary operator
Apply(op, a, b) ==
  CASE op = "Iff" -> (a <=> b)
    [] op = "Implies" -> (~a \/ b)
    [] op = "Or" -> (a \/ b)
    [] op = "Xor" -> (a # b)
    [] op = "And" -> (a /\ b)

\* the tokens of `A op1 (B op2 C)`
RightGrouped(op1, op2) ==
  <<Var(cA), Tok(op1), Tok("LParen"), Var(cB), Tok(op2), Var(cC), Tok("RParen")>>

\* the tokens of `(A op1 B) op2 C`
LeftGrouped(op1, op2) ==
  <<Tok("LParen"), Var(cA), Tok(op1), Var(cB), Tok("RParen"), Tok(op2), Var(cC)>>

\* C1: in `A op1 B op2 C` the operator that binds tighter groups first:
\* the chain evaluates as `A op1 (B op2 C)` when op2 is the tighter one and
\* as `(A op1 B) op2 C` when op1 is, both read as tokens and as truth
\* functions; so `A | B & C` is `A | (B & C)`.
C1_Precedence ==
  Evaluated =>
    \A op1 \in BinOps, op2 \in BinOps :
      (tokens = Chain(op1, op2) /\ Prec(op1) # Prec(op2)) =>
        LET a == var_map[cA]
            b == var_map[cB]
            c == var_map[cC]
            grouped == IF Prec(op1) < Prec(op2)
                       THEN evaluate(RightGrouped(op1, op2), var_map)
                       ELSE evaluate(LeftGrouped(op1, op2), var_map)
            meaning == IF Prec(op1) < Prec(op2)
                       THEN Apply(op1, a, Apply(op2, b, c))
                       ELSE Apply(op2, Apply(op1, a, b), c)
        IN /\ outcome.err = ""
           /\ outcome.pos = 5
           /\ grouped.err = ""
           /\ grouped.pos = 7
           /\ outcome.val = grouped.val
           /\ outcome.val = meaning

\* `A | B & C` with A true, B and C false: true, where (A | B) & C is false
C1_Witness ==
  /\ Evaluated
  /\ tokens = Chain("Or", "And")
  /\ var_map[cA] /\ ~var_map[cB] /\ ~var_map[cC]
  /\ outcome.err = ""
  /\ outcome.val = TRUE

\* C9: `A -> B -> C` evaluates as `(A -> B) -> C`, a -> b being (not a) or
\* b; with A, B and C false the result is false.
C9_ImpliesLeftToRight ==
  (Evaluated /\ tokens = Chain("Implies", "Implies")) =>
    LET a == var_map[cA]
        b == var_map[cB]
        c == var_map[cC]
        grouped == evaluate(LeftGrouped("Implies", "Implies"), var_map)
    IN /\ outcome.err = ""
       /\ outcome.pos = 5
       /\ grouped.err = ""
       /\ outcome.val = grouped.val
       /\ outcome.val = (~(~a \/ b) \/ c)
       /\ (~a /\ ~b /\ ~c) => outcome.val = FALSE

C9_Witness ==
  /\ Evaluated
  /\ tokens = Chain("Implies", "Implies")
  /\ ~var_map[cA] /\ ~var_map[cB] /\ ~var_map[cC]
  /\ outcome.err = ""
  /\ outcome.val = FALSE

\* the assignment with key z added, bound to false
WithFalse(vmap, z) == [c \in DOMAIN vmap \cup {z} |-> IF c = z THEN FALSE ELSE vmap[c]]

\* C5: a Variable whose letter is no key of the assignment evaluates to
\* false without an error: the outcome is that of the same assignment with
\* the letter bound to false.
C5_MissingVariableIsFalse ==
  Evaluated =>
    \A z \in EvalLetters \ DOMAIN var_map :
      /\ outcome = evaluate(tokens, WithFalse(var_map, z))
      /\ tokens = <<Var(z)>> => outcome = Ret(FALSE, 1)

\* `!Z` under an assignment without Z: true, no error
C5_Witness ==
  /\ Evaluated
  /\ tokens = <<Tok("Not"), Var(cZ)>>
  /\ DOMAIN var_map = {cA}
  /\ outcome = Ret(TRUE, 2)

\* the parenthesis depth after each token of toks, starting from d
RECURSIVE Balanced(_, _)
Balanced(toks, d) ==
  IF toks = << >> THEN d = 0
  ELSE LET k == Head(toks).kind IN
    IF k = "LParen" THEN Balanced(Tail(toks), d + 1)
    ELSE IF k = "RParen" THEN d > 0 /\ Balanced(Tail(toks), d - 1)
    ELSE Balanced(Tail(toks), d)

\* position p holds a LeftParen that the parser is certain to open: only
\* `!` and `(` come before it
OpensAt(toks, p) ==
  /\ toks[p].kind = "LParen"
  /\ \A q \in 1..(p - 1) : toks[q].kind \in {"Not", "LParen"}

\* C8: when the expression after an opened LeftParen is not followed by a
\* RightParen (or the tokens end there), the evaluation fails with
\* "Expected ')'"; an evaluation that returns a value has closed every
\* parenthesis it consumed.
C8_UnbalancedParenFails ==
  Evaluated =>
    /\ \A p \in 1..Len(tokens) :
         OpensAt(tokens, p) =>
           LET inner == parse_expr(tokens, var_map, p) IN
             (inner.err = "" /\ PeekKind(tokens, inner.pos) # "RParen")
               => (outcome.err = "Expected ')'" /\ outcome.val = FALSE)
    /\ outcome.err = "" => Balanced(SubSeq(tokens, 1, outcome.pos), 0)

\* `(A`
C8_Witness ==
  /\ Evaluated
  /\ tokens = <<Tok("LParen"), Var(cA)>>
  /\ cA \in DOMAIN var_map /\ var_map[cA]
  /\ outcome.err = "Expected ')'"

\* C2: a top-level parse that leaves a token unconsumed fails with an error
\* instead of returning a value.
C2_TrailingTokensFail ==
  (Evaluated /\ outcome.pos < Len(tokens)) => outcome.err # ""

----------------------------------------------------------------------------
(* Properties of main, under Spec *)

\* extract_variables has acted
Extracted == pc \in {"check", "rejected", "loop", "parse_panic", "done"}

\* EvaluateRow has acted at least once
RowEvaluated == pc = "parse_panic" \/ rows # << >>

Elements(seq) == {seq[k] : k \in 1..Len(seq)}

VarLetters(toks) == {toks[k].c : k \in {n \in 1..Len(toks) : toks[n].kind = "Var"}}

\* C6: the variable list is strictly ascending by character code and holds
\* exactly the letters of the Variable tokens; so every assignment main
\* builds has a key for every Variable token.
C6_VariablesSortedAndAgree ==
  /\ Extracted =>
       /\ \A k \in 1..(Len(variables) - 1) : variables[k] < variables[k + 1]
       /\ Elements(variables) = VarLetters(tokens)
  /\ RowEvaluated => VarLetters(tokens) \subseteq DOMAIN var_map
  /\ \A k \in 1..Len(rows) : VarLetters(tokens) \subseteq DOMAIN rows[k].var_map

\* `a&Z|A^a`: upper case before lower case, the repeated letter once
C6_Witness ==
  /\ pc = "done"
  /\ expr = MixedCaseText
  /\ variables = <<cA, cZ, ca>>
  /\ DOMAIN var_map = {cA, cZ, ca}

\* the number whose binary digits, most significant first, are bits
RECURSIVE BitsValue(_)
BitsValue(bits) ==
  IF bits = << >> THEN 0
  ELSE 2 * BitsValue(SubSeq(bits, 1, Len(bits) - 1)) + bits[Len(bits)]

\* C7: with n <= 5 variables, the rows are those of i = 0, 1, ... in order,
\* row i binds the variable at index j to bit (n - j - 1) of i, so its
\* digits read as a binary number, first variable first, are i; a table
\* that completes has 2^n rows, one for each assignment, the first
\* all-false and the last all-true.
C7_RowsEnumerateAssignments ==
  pc \in {"loop", "parse_panic", "done"} =>
    LET n == Len(variables) IN
      /\ n <= MaxVariables
      /\ Len(rows) = i
      /\ \A k \in 1..Len(rows) :
           /\ rows[k].i = k - 1
           /\ Len(rows[k].bits) = n
           /\ BitsValue(rows[k].bits) = k - 1
           /\ DOMAIN rows[k].var_map = Elements(variables)
           /\ \A j \in 1..n : rows[k].var_map[variables[j]] = (rows[k].bits[j] = 1)
      /\ pc = "done" =>
           /\ Len(rows) = 2 ^ n
           /\ {rows[k].var_map : k \in 1..Len(rows)} = [Elements(variables) -> BOOLEAN]
           /\ \A k \in 1..Len(rows), m \in 1..Len(rows) :
                rows[k].var_map = rows[m].var_map => k = m
           /\ \A j \in 1..n : rows[1].bits[j] = 0 /\ rows[Len(rows)].bits[j] = 1

\* `E&D&C&B&A`: 32 rows, row 9 (i = 8) is 0 1 0 0 0 with B the only true one
C7_Witness ==
  /\ pc = "done"
  /\ expr = FiveVariablesText
  /\ Len(rows) = 32
  /\ rows[9].bits = <<0, 1, 0, 0, 0>>
  /\ rows[9].var_map[cB]
  /\ rows[32].result = TRUE

\* C10: the parse path does not depend on the assignment: under every
\* assignment of the variables, total or partial, the tokens give the same
\* kind of outcome (a value, or the same panic) after the same number of
\* tokens as in the row just evaluated; so a formula that fails to parse
\* fails in the row of i = 0 and no result row is printed for it.
C10_ParsePathIgnoresAssignment ==
  RowEvaluated =>
    /\ \A a \in Assignments(Elements(variables)) :
         LET o == evaluate(tokens, a) IN
           /\ o.err = outcome.err
           /\ o.found = outcome.found
           /\ o.pos = outcome.pos
    /\ pc = "parse_panic" => (i = 0 /\ rows = << >>)
    /\ rows # << >> => pc # "parse_panic"

\* `A&B&C&D&(E` panics in its first row
C10_Witness ==
  /\ pc = "parse_panic"
  /\ expr = UnbalancedText
  /\ Len(variables) = 5
  /\ outcome.err = "Expected ')'"
  /\ i = 0
  /\ rows = << >>

====
